---- MODULE Spec2Model ----
(***************************************************************************)
(* State-machine model of eole's generation core:                          *)
(*   - DecodeStrategy (src/eole/predict/decode_strategy.py): the base      *)
(*     class of the greedy / beam strategies, one action per method;       *)
(*   - TransformerDecoder.forward (src/eole/decoders/                       *)
(*     transformer_decoder.py): mask preconditions and cache lifecycle.    *)
(*                                                                         *)
(* Conventions.  Tensors are sequences of rows.  Path (row) indices are    *)
(* 1-based here (0-based in the source); token ids are the source's        *)
(* integers.  A Python None is the empty sequence <<>> and a present value *)
(* v is <<v>>.  A dict of sets (forbidden_tokens[i]) is the set of its     *)
(* <<key, member>> pairs: the source never stores an empty set under a     *)
(* key (setdefault is always followed by add).                             *)
(***************************************************************************)
EXTENDS Integers, Sequences, FiniteSets, TLC

VARIABLES
    args,               \* what the caller passes to __init__ and initialize
    pc,                 \* position of the driving loop
    eos, batch_size, parallel_paths,
    min_length, max_length, ban_unk_token,
    block_ngram_repeat, exclusion_tokens,
    forbidden_tokens, done,
    alive_seq, is_finished_list, target_prefix, select_indices,
    log_probs,          \* the score tensor the constraints mutate in place
    origin,             \* for every alive row, the initial row it descends from
    layer_kind, self_cache, context_cache,   \* decoder layers
    self_cache_in, context_cache_in,  \* the caches the layer loop started from
    kwargs, outcome     \* masks, step and path count of the last forward
                        \* call, and how it ended

strategy_vars == <<args, pc, eos, batch_size, parallel_paths, min_length,
                   max_length, ban_unk_token, block_ngram_repeat,
                   exclusion_tokens, forbidden_tokens, done, alive_seq,
                   is_finished_list, target_prefix, select_indices, log_probs,
                   origin>>
decoder_vars == <<layer_kind, self_cache, context_cache, self_cache_in,
                  context_cache_in, kwargs, outcome>>
vars == <<strategy_vars, decoder_vars>>

-----------------------------------------------------------------------------
(* Magic vocabulary indices (constructor arguments, fixed for a run).      *)
pad == 0
bos == 1
unk == 3
start == 1
(* Size of the output vocabulary: ids 0..5 = pad, bos, eos, unk, a, b.     *)
VocabSize == 6
Vocab == 0 .. (VocabSize - 1)

(* Score written by ensure_min_length / ensure_unk_removed.                *)
EosSentinel == -65504
UnkSentinel == -65504
(* Score written by block_ngram_repeats: the float -10e20.  It is outside  *)
(* the model checker's integer range and is represented by this value;     *)
(* FSub below keeps the float behaviour that matters (absorption).         *)
NgramSentinel == -2000000000
(* Penalty subtracted by target_prefixing.                                 *)
PrefixPenalty == 10000

(* Bounds of the model.                                                    *)
MaxMaxLength == 3       \* constructor max_length ranges over 0..MaxMaxLength
MaxMinLength == 2       \* constructor min_length ranges over 0..MaxMinLength
LenCap == 5             \* no scorer call once a path holds LenCap tokens

None == <<>>
Some(v) == <<v>>

Max(S) == CHOOSE m \in S : \A x \in S : x <= m
Min(S) == CHOOSE m \in S : \A x \in S : m <= x
Range(s) == {s[i] : i \in 1 .. Len(s)}

(* Python's s[-n:] : the last n elements; the whole of s when n = 0        *)
(* (-0 is 0) or when n >= len(s).                                          *)
PySuffix(s, n) ==
    IF n = 0 \/ n >= Len(s) THEN s ELSE SubSeq(s, Len(s) - n + 1, Len(s))

(* Python's s[:-1].                                                        *)
PyInit(s) == IF Len(s) = 0 THEN s ELSE SubSeq(s, 1, Len(s) - 1)

(* x - y in float32: -10e20 absorbs a subtrahend of magnitude 10000.       *)
FSub(x, y) == IF x = NgramSentinel THEN NgramSentinel ELSE x - y

(* len(self): alive_seq.shape[1].                                          *)
SelfLen == IF Len(alive_seq) = 0 THEN 0 ELSE Len(alive_seq[1])

(* The highest-scoring token ids of one row of scores.                     *)
ArgMax(row) == {t \in Vocab : \A u \in Vocab : row[u] <= row[t]}

-----------------------------------------------------------------------------
(* Inputs.                                                                 *)

(* The constructor's eos argument: an int (kind "int", the id is ids[1])   *)
(* or a list of ids (kind "list").                                         *)
EosArgs == { [kind |-> "int", ids |-> <<2>>],
             [kind |-> "list", ids |-> <<2>>],
             [kind |-> "list", ids |-> <<2, 5>>] }

BaseArgs == [ eos |-> [kind |-> "int", ids |-> <<2>>],
              batch_size |-> 1, parallel_paths |-> 1,
              min_length |-> 0, max_length |-> MaxMaxLength,
              ban_unk_token |-> FALSE, block_ngram_repeat |-> 0,
              exclusion_tokens |-> {}, target_prefix |-> None ]

(* Forced prefixes handed to initialize, one row per path, bos first.      *)
Prefixes1 == { << <<1>> >>, << <<1, 0>> >>, << <<1, 4>> >>, << <<1, 3>> >>,
               << <<1, 2>> >>, << <<1, 4, 5>> >>, << <<1, 4, 4, 4>> >> }
Prefixes2 == { << <<1, 4>>, <<1, 0>> >>, << <<1, 4, 5>>, <<1, 5, 0>> >>,
               << <<1, 2, 0>>, <<1, 4, 5>> >>,
               << <<1, 3>>, <<1, 2>> >> }

(* Length bounds, with and without a forced prefix.                        *)
LengthArgs ==
    { [BaseArgs EXCEPT !.min_length = mn, !.max_length = mx, !.target_prefix = tp] :
        mn \in 0 .. MaxMinLength, mx \in 0 .. MaxMaxLength,
        tp \in {None, Some(<< <<1>> >>), Some(<< <<1, 0>> >>), Some(<< <<1, 4>> >>)} }

(* Terminal ids given as an int or as a list.                              *)
EosListArgs ==
    { [BaseArgs EXCEPT !.eos = e, !.min_length = mn, !.ban_unk_token = b] :
        e \in EosArgs, mn \in 0 .. MaxMinLength, b \in BOOLEAN }

(* N-gram blocking: one path long enough for a trigram to repeat, two      *)
(* batch items of one path, and one batch item of two paths (a beam) for   *)
(* two steps.                                                              *)
NgramArgs ==
    { [BaseArgs EXCEPT !.block_ngram_repeat = k, !.exclusion_tokens = x,
                       !.max_length = MaxMaxLength + 1] :
        k \in 1 .. 3, x \in {{}, {4}} }
    \cup
    { [BaseArgs EXCEPT !.block_ngram_repeat = k, !.exclusion_tokens = x,
                       !.batch_size = 2] :
        k \in 1 .. 3, x \in {{}, {4}} }
    \cup
    { [BaseArgs EXCEPT !.block_ngram_repeat = k, !.exclusion_tokens = x,
                       !.parallel_paths = 2, !.max_length = 2] :
        k \in 1 .. 3, x \in {{}, {4}} }

(* Forced prefixes, alone and together with the other constraints.         *)
PrefixArgs ==
    { [BaseArgs EXCEPT !.target_prefix = Some(tp), !.ban_unk_token = b,
                       !.block_ngram_repeat = k, !.max_length = 1] :
        tp \in Prefixes1, b \in BOOLEAN, k \in {0, 2} }
    \cup
    { [BaseArgs EXCEPT !.target_prefix = Some(tp), !.batch_size = sh[1],
                       !.parallel_paths = sh[2], !.max_length = 1] :
        tp \in Prefixes1 \cup Prefixes2, sh \in {<<1, 2>>, <<2, 1>>} }

(* All constraints at once: two terminal ids, a minimum length, bigram     *)
(* blocking and a forced prefix that repeats a bigram.                     *)
EdgeArgs ==
    { [BaseArgs EXCEPT !.eos = [kind |-> "list", ids |-> <<2, 5>>],
                       !.min_length = 1, !.max_length = 1,
                       !.block_ngram_repeat = 2, !.ban_unk_token = b,
                       !.target_prefix = Some(<< <<1, 4, 4, 4>> >>)] :
        b \in BOOLEAN }

Scenarios == LengthArgs \cup EosListArgs \cup NgramArgs \cup PrefixArgs \cup EdgeArgs

(* What the scorer may return for one path: token f scores highest, the    *)
(* others follow in cyclic id order (log-probabilities, all negative).     *)
ScorerFavs == {2, 4, 5}
RawRow(f) == [t \in Vocab |-> -1 - ((t - f) % VocabSize)]
RawRows == {RawRow(f) : f \in ScorerFavs}

-----------------------------------------------------------------------------
(* DecodeStrategy.__init__                                                 *)

(* isinstance(eos, int): an int becomes a one-element list.                *)
NormalizeEos(e) == IF e.kind = "int" THEN <<e.ids[1]>> ELSE e.ids

Construct ==
    /\ pc = "new"
    /\ eos' = NormalizeEos(args.eos)
    /\ batch_size' = args.batch_size
    /\ parallel_paths' = args.parallel_paths
    /\ min_length' = args.min_length
    /\ max_length' = args.max_length
    /\ ban_unk_token' = args.ban_unk_token
    /\ block_ngram_repeat' = args.block_ngram_repeat
    /\ forbidden_tokens' = [i \in 1 .. (args.batch_size * args.parallel_paths) |-> {}]
    /\ exclusion_tokens' = args.exclusion_tokens
    /\ done' = FALSE
    /\ pc' = "constructed"
    /\ UNCHANGED <<args, alive_seq, is_finished_list, target_prefix,
                   select_indices, log_probs, origin, decoder_vars>>

-----------------------------------------------------------------------------
(* DecodeStrategy.initialize                                               *)

(* Variant of StripBos that keeps the first column.                        *)
StripBos_keep(tp) == tp

(* target_prefix[:, 1:]                                                    *)
StripBos(tp) == [i \in 1 .. Len(tp) |-> SubSeq(tp[i], 2, Len(tp[i]))]

(* target_prefix.ne(pad).sum(dim=-1): non-padding tokens of each row.      *)
NonPadCount(row) == Cardinality({j \in 1 .. Len(row) : row[j] # pad})
PrefixNonPad(tp) == {NonPadCount(tp[i]) : i \in 1 .. Len(tp)}

(* The assertion on the row count of the forced prefix.                    *)
PrefixRowsOk(tp) == Len(tp) = batch_size * parallel_paths

Initialize ==
    /\ pc = "constructed"
    /\ alive_seq' = [i \in 1 .. (batch_size * parallel_paths) |-> <<start>>]
    /\ origin' = [i \in 1 .. (batch_size * parallel_paths) |-> i]
    /\ is_finished_list' =
           [b \in 1 .. batch_size |-> [j \in 1 .. parallel_paths |-> FALSE]]
    /\ IF args.target_prefix = None
       THEN /\ target_prefix' = None
            /\ pc' = "score"
            /\ UNCHANGED <<max_length, min_length>>
       ELSE IF ~PrefixRowsOk(args.target_prefix[1])
       THEN /\ pc' = "error"
            /\ UNCHANGED <<target_prefix, max_length, min_length>>
       ELSE LET stripped == StripBos(args.target_prefix[1])
            IN  /\ max_length' = max_length + Max(PrefixNonPad(stripped)) - 1
                /\ min_length' = min_length + Min(PrefixNonPad(stripped)) - 1
                /\ target_prefix' = Some(stripped)
                /\ pc' = "score"
    /\ UNCHANGED <<args, eos, batch_size, parallel_paths, ban_unk_token,
                   block_ngram_repeat, exclusion_tokens, forbidden_tokens,
                   done, select_indices, log_probs, decoder_vars>>

-----------------------------------------------------------------------------
(* The scorer (external): one row of log-probabilities per alive path.     *)

RowTuples(n) == [1 .. n -> RawRows]

Score ==
    /\ pc = "score"
    /\ SelfLen < LenCap
    /\ \E lp \in RowTuples(Len(alive_seq)) : log_probs' = lp
    /\ pc' = "min_length"
    /\ UNCHANGED <<args, eos, batch_size, parallel_paths, min_length,
                   max_length, ban_unk_token, block_ngram_repeat,
                   exclusion_tokens, forbidden_tokens, done, alive_seq,
                   is_finished_list, target_prefix, select_indices,
                   origin, decoder_vars>>

-----------------------------------------------------------------------------
(* The constraints: each rewrites log_probs in place and nothing else.     *)

path_frame == <<args, eos, batch_size, parallel_paths, min_length,
                max_length, ban_unk_token, block_ngram_repeat,
                exclusion_tokens, forbidden_tokens, done, alive_seq,
                is_finished_list, target_prefix, select_indices, origin>>

(* Variant of ensure_min_length comparing with < instead of <=.            *)
ensure_min_length_strict(lp) ==
    IF SelfLen < min_length
    THEN [p \in 1 .. Len(lp) |->
            [t \in Vocab |-> IF t \in Range(eos) THEN EosSentinel ELSE lp[p][t]]]
    ELSE lp

(* DecodeStrategy.ensure_min_length                                        *)
ensure_min_length(lp) ==
    IF SelfLen <= min_length
    THEN [p \in 1 .. Len(lp) |->
            [t \in Vocab |-> IF t \in Range(eos) THEN EosSentinel ELSE lp[p][t]]]
    ELSE lp

(* log_probs[:, eos] raises IndexError for an id outside the vocabulary.   *)
ensure_min_length_raises ==
    SelfLen <= min_length /\ \E e \in Range(eos) : e \notin Vocab

EnsureMinLength ==
    /\ pc = "min_length"
    /\ IF ensure_min_length_raises
       THEN log_probs' = log_probs /\ pc' = "raised"
       ELSE log_probs' = ensure_min_length(log_probs) /\ pc' = "unk"
    /\ UNCHANGED <<path_frame, decoder_vars>>

(* DecodeStrategy.ensure_unk_removed                                       *)
ensure_unk_removed(lp) ==
    IF ban_unk_token
    THEN [p \in 1 .. Len(lp) |-> [lp[p] EXCEPT ![unk] = UnkSentinel]]
    ELSE lp

(* log_probs[:, self.unk] raises IndexError for an id outside the          *)
(* vocabulary.                                                             *)
ensure_unk_removed_raises == ban_unk_token /\ unk \notin Vocab

EnsureUnkRemoved ==
    /\ pc = "unk"
    /\ IF ensure_unk_removed_raises
       THEN log_probs' = log_probs /\ pc' = "raised"
       ELSE log_probs' = ensure_unk_removed(log_probs) /\ pc' = "ngram"
    /\ UNCHANGED <<path_frame, decoder_vars>>

(* dict.get(key, None) on a table: the set stored under key, None without. *)
TableGet(table, key) ==
    IF \E e \in table : e[1] = key
    THEN Some({e[2] : e \in {d \in table : d[1] = key}})
    ELSE None

(* DecodeStrategy.block_ngram_repeats                                      *)
block_ngram_repeats(lp) ==
    IF block_ngram_repeat <= 0 THEN lp
    ELSE IF SelfLen < block_ngram_repeat THEN lp
    ELSE LET n == block_ngram_repeat - 1
         IN  [path_idx \in 1 .. Len(alive_seq) |->
                LET current_ngram == PySuffix(alive_seq[path_idx], n)
                    forbidden == TableGet(forbidden_tokens[path_idx], current_ngram)
                IN  IF forbidden # None
                    THEN [t \in Vocab |->
                            IF t \in forbidden[1] THEN NgramSentinel
                            ELSE lp[path_idx][t]]
                    ELSE lp[path_idx]]

(* Variant of BlockNgramRepeats that takes the consulted entry out of the  *)
(* table (dict.pop instead of dict.get).                                   *)
BlockNgramRepeats_pop ==
    /\ pc = "ngram"
    /\ log_probs' = block_ngram_repeats(log_probs)
    /\ forbidden_tokens' =
           IF block_ngram_repeat <= 0 \/ SelfLen < block_ngram_repeat
           THEN forbidden_tokens
           ELSE [p \in 1 .. Len(forbidden_tokens) |->
                    {e \in forbidden_tokens[p] :
                        e[1] # PySuffix(alive_seq[p], block_ngram_repeat - 1)}]
    /\ pc' = "prefix"
    /\ UNCHANGED <<args, eos, batch_size, parallel_paths, min_length,
                   max_length, ban_unk_token, block_ngram_repeat,
                   exclusion_tokens, done, alive_seq, is_finished_list,
                   target_prefix, select_indices, origin, decoder_vars>>

(* self.forbidden_tokens[path_idx] raises IndexError when the table list   *)
(* is shorter than alive_seq, log_probs[path_idx, ...] when log_probs is.  *)
block_ngram_repeats_raises(lp) ==
    /\ block_ngram_repeat > 0
    /\ SelfLen >= block_ngram_repeat
    /\ \/ Len(forbidden_tokens) < Len(alive_seq)
       \/ \E path_idx \in 1 .. Len(alive_seq) :
             /\ path_idx > Len(lp)
             /\ TableGet(forbidden_tokens[path_idx],
                         PySuffix(alive_seq[path_idx], block_ngram_repeat - 1)) # None

BlockNgramRepeats ==
    /\ pc = "ngram"
    /\ IF block_ngram_repeats_raises(log_probs)
       THEN log_probs' = log_probs /\ pc' = "raised"
       ELSE log_probs' = block_ngram_repeats(log_probs) /\ pc' = "prefix"
    /\ UNCHANGED <<path_frame, decoder_vars>>

(* pick not in [*self.eos, self.pad]                                       *)
Forced(pick) == pick \notin (Range(eos) \cup {pad})

(* Variant of target_prefixing without the path mask of exempt paths.      *)
target_prefixing_no_path_mask(lp) ==
    LET step == SelfLen
    IN  IF target_prefix # None /\ step <= Len(target_prefix[1][1])
        THEN LET pick_idx == [i \in 1 .. Len(target_prefix[1]) |->
                                 target_prefix[1][i][step]]
                 pick_coo == {<<i, pick_idx[i]>> : i \in
                                 {j \in 1 .. Len(pick_idx) : Forced(pick_idx[j])}}
             IN  IF pick_coo # {}
                 THEN [p \in 1 .. Len(lp) |->
                         [t \in Vocab |->
                            FSub(lp[p][t],
                                 PrefixPenalty * (IF <<p, t>> \in pick_coo THEN 0 ELSE 1))]]
                 ELSE lp
        ELSE lp

(* DecodeStrategy.target_prefixing                                         *)
target_prefixing(lp) ==
    LET step == SelfLen
    IN  IF target_prefix # None /\ step <= Len(target_prefix[1][1])
        THEN LET pick_idx == [i \in 1 .. Len(target_prefix[1]) |->
                                 target_prefix[1][i][step]]
                 pick_coo == {<<i, pick_idx[i]>> : i \in
                                 {j \in 1 .. Len(pick_idx) : Forced(pick_idx[j])}}
                 mask_pathid == {j \in 1 .. Len(pick_idx) : ~Forced(pick_idx[j])}
                 dropdowns(p, t) ==
                     IF mask_pathid # {} /\ p \in mask_pathid THEN 0
                     ELSE IF <<p, t>> \in pick_coo THEN 0 ELSE 1
             IN  IF pick_coo # {}
                 THEN [p \in 1 .. Len(lp) |->
                         [t \in Vocab |->
                            FSub(lp[p][t], PrefixPenalty * dropdowns(p, t))]]
                 ELSE lp
        ELSE lp

(* torch.sparse_coo_tensor(..., size=log_probs.size()) raises when a       *)
(* forced path's row or token lies outside log_probs, and                  *)
(* path_mask[mask_pathid] = 1 raises when an exempt path's row does.       *)
target_prefixing_raises(lp) ==
    /\ target_prefix # None
    /\ SelfLen <= Len(target_prefix[1][1])
    /\ LET pick_idx == [i \in 1 .. Len(target_prefix[1]) |->
                           target_prefix[1][i][SelfLen]]
           forced == {j \in 1 .. Len(pick_idx) : Forced(pick_idx[j])}
           mask_pathid == {j \in 1 .. Len(pick_idx) : ~Forced(pick_idx[j])}
       IN  /\ forced # {}
           /\ \/ \E i \in forced : i > Len(lp) \/ pick_idx[i] \notin Vocab
              \/ \E i \in mask_pathid : i > Len(lp)

TargetPrefixing ==
    /\ pc = "prefix"
    /\ IF target_prefixing_raises(log_probs)
       THEN log_probs' = log_probs /\ pc' = "raised"
       ELSE log_probs' = target_prefixing(log_probs) /\ pc' = "pick"
    /\ UNCHANGED <<path_frame, decoder_vars>>

-----------------------------------------------------------------------------
(* Selection (the strategy's advance): every new path i continues a parent *)
(* select_indices[i] of its own batch item with one of the parallel_paths  *)
(* highest-scoring tokens of the parent's row, two children of one parent  *)
(* with different tokens; with one path per item the reorder is the        *)
(* identity and the token is a highest-scoring one.                        *)

ItemOf(i) == ((i - 1) \div parallel_paths) + 1

SelectIndexChoices ==
    {s \in [1 .. Len(alive_seq) -> 1 .. Len(alive_seq)] :
        \A i \in 1 .. Len(alive_seq) : ItemOf(s[i]) = ItemOf(i)}

(* The n highest-scoring token ids of one row of scores.                   *)
TopK(row, n) == {t \in Vocab : Cardinality({u \in Vocab : row[u] > row[t]}) < n}

Select ==
    /\ pc = "pick"
    /\ \E sel \in SelectIndexChoices :
       \E topk_ids \in [1 .. Len(alive_seq) -> Vocab] :
          /\ \A i \in 1 .. Len(alive_seq) :
                topk_ids[i] \in TopK(log_probs[sel[i]], parallel_paths)
          /\ \A i, j \in 1 .. Len(alive_seq) :
                (i # j /\ sel[i] = sel[j]) => topk_ids[i] # topk_ids[j]
          /\ select_indices' = sel
          /\ origin' = [i \in 1 .. Len(alive_seq) |-> origin[sel[i]]]
          /\ alive_seq' = [i \in 1 .. Len(alive_seq) |->
                              Append(alive_seq[sel[i]], topk_ids[i])]
          /\ is_finished_list' =
                 [b \in 1 .. Len(is_finished_list) |->
                    [j \in 1 .. parallel_paths |->
                       topk_ids[(b - 1) * parallel_paths + j] \in Range(eos)]]
    /\ log_probs' = <<>>
    /\ pc' = "forbidden"
    /\ UNCHANGED <<args, eos, batch_size, parallel_paths, min_length,
                   max_length, ban_unk_token, block_ngram_repeat,
                   exclusion_tokens, forbidden_tokens, done, target_prefix,
                   decoder_vars>>

-----------------------------------------------------------------------------
(* DecodeStrategy.maybe_update_forbidden_tokens                            *)

(* zip(a, b) stops at the shorter of the two.                              *)
ZipLen(a, b) == IF Len(a) <= Len(b) THEN Len(a) ELSE Len(b)

(* Variant of maybe_update_forbidden_tokens without the exclusion test.    *)
maybe_update_forbidden_tokens_all ==
    IF block_ngram_repeat <= 0 THEN forbidden_tokens
    ELSE IF SelfLen < block_ngram_repeat THEN forbidden_tokens
    ELSE [i \in 1 .. ZipLen(select_indices, alive_seq) |->
            LET current_ngram == PySuffix(alive_seq[i], block_ngram_repeat)
            IN  forbidden_tokens[select_indices[i]] \cup
                {<<PyInit(current_ngram), current_ngram[Len(current_ngram)]>>}]

(* The tables are objects: heap is the sequence of the tables that exist,  *)
(* a reference is an index into it.  Variant of deepcopy that hands back   *)
(* the table itself instead of a copy.                                     *)
deepcopy_shared(heap, ref) == <<heap, ref>>

(* deepcopy(self.forbidden_tokens[path_idx]): a new table with the same    *)
(* content; the result is the heap with the copy and the copy's reference. *)
deepcopy(heap, ref) == <<Append(heap, heap[ref]), Len(heap) + 1>>

(* Variant of forbidden_tokens_loop that copies the table at the path's    *)
(* own position instead of its parent's.                                   *)
RECURSIVE forbidden_tokens_loop_in_place(_, _, _)
forbidden_tokens_loop_in_place(i, heap, refs) ==
    IF i > ZipLen(select_indices, alive_seq)
    THEN [j \in 1 .. Len(refs) |-> heap[refs[j]]]
    ELSE LET n == block_ngram_repeat
             copied == deepcopy(heap, i)
             current_ngram == PySuffix(alive_seq[i], n)
         IN  IF Range(current_ngram) \cap exclusion_tokens # {}
             THEN forbidden_tokens_loop_in_place(i + 1, copied[1], Append(refs, copied[2]))
             ELSE forbidden_tokens_loop_in_place(
                      i + 1,
                      [copied[1] EXCEPT ![copied[2]] = @ \cup
                          {<<PyInit(current_ngram), current_ngram[Len(current_ngram)]>>}],
                      Append(refs, copied[2]))

(* The loop of maybe_update_forbidden_tokens from its i-th round on: refs  *)
(* is the list built so far; the tables it refers to are read when the     *)
(* loop is over.                                                           *)
RECURSIVE forbidden_tokens_loop(_, _, _)
forbidden_tokens_loop(i, heap, refs) ==
    IF i > ZipLen(select_indices, alive_seq)
    THEN [j \in 1 .. Len(refs) |-> heap[refs[j]]]
    ELSE LET n == block_ngram_repeat
             copied == deepcopy(heap, select_indices[i])
             current_ngram == PySuffix(alive_seq[i], n)
         IN  IF Range(current_ngram) \cap exclusion_tokens # {}
             THEN forbidden_tokens_loop(i + 1, copied[1], Append(refs, copied[2]))
             ELSE forbidden_tokens_loop(
                      i + 1,
                      [copied[1] EXCEPT ![copied[2]] = @ \cup
                          {<<PyInit(current_ngram), current_ngram[Len(current_ngram)]>>}],
                      Append(refs, copied[2]))

maybe_update_forbidden_tokens ==
    IF block_ngram_repeat <= 0 THEN forbidden_tokens
    ELSE IF SelfLen < block_ngram_repeat THEN forbidden_tokens
    ELSE forbidden_tokens_loop(1, forbidden_tokens, <<>>)

MaybeUpdateForbiddenTokens ==
    /\ pc = "forbidden"
    /\ forbidden_tokens' = maybe_update_forbidden_tokens
    /\ pc' = "tprefix"
    /\ UNCHANGED <<args, eos, batch_size, parallel_paths, min_length,
                   max_length, ban_unk_token, block_ngram_repeat,
                   exclusion_tokens, done, alive_seq, is_finished_list,
                   target_prefix, select_indices, log_probs, origin,
                   decoder_vars>>

(* Variant of maybe_update_target_prefix that never reindexes.              *)
maybe_update_target_prefix_never(tp, select_index, length) == tp

(* Variant of maybe_update_target_prefix that stops one step early.        *)
maybe_update_target_prefix_early(tp, select_index, length) ==
    IF tp = None THEN tp
    ELSE IF length >= Len(tp[1][1]) THEN tp
    ELSE Some([i \in 1 .. Len(select_index) |-> tp[1][select_index[i]]])

(* DecodeStrategy.maybe_update_target_prefix                               *)
maybe_update_target_prefix(tp, select_index, length) ==
    IF tp = None THEN tp
    ELSE IF length > Len(tp[1][1]) THEN tp
    ELSE Some([i \in 1 .. Len(select_index) |-> tp[1][select_index[i]]])

MaybeUpdateTargetPrefix ==
    /\ pc = "tprefix"
    /\ target_prefix' =
           maybe_update_target_prefix(target_prefix, select_indices, SelfLen)
    /\ pc' = "max_length"
    /\ UNCHANGED <<args, eos, batch_size, parallel_paths, min_length,
                   max_length, ban_unk_token, block_ngram_repeat,
                   exclusion_tokens, forbidden_tokens, done, alive_seq,
                   is_finished_list, select_indices, log_probs, origin,
                   decoder_vars>>

(* Variant of ensure_max_length that forgets the start token.              *)
ensure_max_length_no_start ==
    IF SelfLen = max_length
    THEN [b \in 1 .. Len(is_finished_list) |-> [j \in 1 .. parallel_paths |-> TRUE]]
    ELSE is_finished_list

(* DecodeStrategy.ensure_max_length                                        *)
ensure_max_length ==
    IF SelfLen = max_length + 1
    THEN [b \in 1 .. Len(is_finished_list) |-> [j \in 1 .. parallel_paths |-> TRUE]]
    ELSE is_finished_list

EnsureMaxLength ==
    /\ pc = "max_length"
    /\ is_finished_list' = ensure_max_length
    /\ pc' = "finished"
    /\ UNCHANGED <<args, eos, batch_size, parallel_paths, min_length,
                   max_length, ban_unk_token, block_ngram_repeat,
                   exclusion_tokens, forbidden_tokens, done, alive_seq,
                   target_prefix, select_indices, log_probs, origin,
                   decoder_vars>>

-----------------------------------------------------------------------------
(* update_finished (the strategy's): a batch item all of whose paths are   *)
(* finished leaves the alive set; the run is done when none is left.  The  *)
(* surviving rows are selected in every per-path structure.                *)

ItemFinished(b) == \A j \in 1 .. parallel_paths : is_finished_list[b][j]
AllFinished == \A b \in 1 .. Len(is_finished_list) : ItemFinished(b)

(* The rows of the batch items that are not finished, in order.            *)
RECURSIVE Survivors(_, _)
Survivors(i, n) ==
    IF i > n THEN <<>>
    ELSE IF ItemFinished(ItemOf(i)) THEN Survivors(i + 1, n)
    ELSE <<i>> \o Survivors(i + 1, n)

UpdateFinished ==
    /\ pc = "finished"
    /\ IF AllFinished
       THEN /\ done' = TRUE
            /\ pc' = "done"
            /\ UNCHANGED <<alive_seq, is_finished_list, forbidden_tokens,
                           target_prefix, select_indices, origin>>
       ELSE LET is_alive == Survivors(1, Len(alive_seq))
            IN  /\ done' = FALSE
                /\ pc' = "score"
                /\ select_indices' = is_alive
                /\ alive_seq' = [i \in 1 .. Len(is_alive) |-> alive_seq[is_alive[i]]]
                /\ origin' = [i \in 1 .. Len(is_alive) |-> origin[is_alive[i]]]
                /\ forbidden_tokens' =
                       [i \in 1 .. Len(is_alive) |-> forbidden_tokens[is_alive[i]]]
                /\ is_finished_list' =
                       [b \in 1 .. (Len(is_alive) \div parallel_paths) |->
                          is_finished_list[ItemOf(is_alive[(b - 1) * parallel_paths + 1])]]
                /\ target_prefix' =
                       maybe_update_target_prefix(target_prefix, is_alive, SelfLen)
    /\ UNCHANGED <<args, eos, batch_size, parallel_paths, min_length,
                   max_length, ban_unk_token, block_ngram_repeat,
                   exclusion_tokens, log_probs, decoder_vars>>

-----------------------------------------------------------------------------
(* The decode run.                                                         *)

(* No decoder is part of the strategy's run.                               *)
DecoderIdle ==
    /\ layer_kind = <<>>
    /\ self_cache = <<>>
    /\ context_cache = <<>>
    /\ self_cache_in = <<>>
    /\ context_cache_in = <<>>
    /\ kwargs = None
    /\ outcome = "none"

(* No strategy object exists yet.                                          *)
StrategyNew ==
    /\ pc = "new"
    /\ eos = <<>>
    /\ batch_size = 0
    /\ parallel_paths = 0
    /\ min_length = 0
    /\ max_length = 0
    /\ ban_unk_token = FALSE
    /\ block_ngram_repeat = 0
    /\ exclusion_tokens = {}
    /\ forbidden_tokens = <<>>
    /\ done = FALSE
    /\ alive_seq = <<>>
    /\ is_finished_list = <<>>
    /\ target_prefix = None
    /\ select_indices = <<>>
    /\ log_probs = <<>>
    /\ origin = <<>>

Init ==
    /\ args \in Scenarios
    /\ StrategyNew
    /\ DecoderIdle

Next ==
    \/ Construct
    \/ Initialize
    \/ Score
    \/ EnsureMinLength
    \/ EnsureUnkRemoved
    \/ BlockNgramRepeats
    \/ TargetPrefixing
    \/ Select
    \/ MaybeUpdateForbiddenTokens
    \/ MaybeUpdateTargetPrefix
    \/ EnsureMaxLength
    \/ UpdateFinished

Spec == Init /\ [][Next]_vars

-----------------------------------------------------------------------------
(* TransformerDecoder: the layer stack and its per-layer caches.           *)
(*                                                                         *)
(* A layer_cache (flag, tensors) is the record [enabled, len, shape]:      *)
(* len is the number of positions the tensors hold (keys/values) or the    *)
(* number of steps folded into the running average (prev_g), shape is the  *)
(* shape of prev_g (<<>> for key/value caches, whose empty tensor has no   *)
(* batch or width).                                                        *)

NumLayers == 2          \* model_config.layers
MaxStep == 2            \* forward is called with step None or 0..MaxStep
MaxChunk == 2           \* emb holds 1..MaxChunk positions
MaxBatch == 2           \* emb holds 1..MaxBatch paths
HiddenSize == 2         \* width of emb and enc_out
SrcLen == 3             \* source positions of enc_out
MaxDepth == 3           \* no call that would grow a cache past MaxDepth

Layers == 1 .. NumLayers

(* The layer_cache every attention module is created with (eole.modules,   *)
(* outside this file): caching off, empty tensors.                         *)
FreshCache == [enabled |-> FALSE, len |-> 0, shape |-> <<>>]

(* The keyword arguments of one forward call; a mask is TRUE when given.   *)
(* enc_out, when given, holds SrcLen positions for the paths of emb.       *)
ForwardCalls ==
    { kw \in [ emb : {<<b, t, HiddenSize>> : b \in 1 .. MaxBatch, t \in 1 .. MaxChunk},
               enc_out : {None} \cup {Some(<<b, SrcLen, HiddenSize>>) : b \in 1 .. MaxBatch},
               tgt_pad_mask : BOOLEAN,
               src_pad_mask : BOOLEAN,
               step : {None} \cup {Some(i) : i \in 0 .. MaxStep} ] :
        kw.enc_out # None => kw.enc_out[1][1] = kw.emb[1] }

(* The two assertions on the masks.                                        *)
forward_outcome(kw) ==
    IF ~kw.tgt_pad_mask THEN "AssertionError"
    ELSE IF ~kw.src_pad_mask THEN "AssertionError"
    ELSE "ok"

(* enc_out, or emb when no enc_out is given.                               *)
EncOut(kw) == IF kw.enc_out = None THEN kw.emb ELSE kw.enc_out[1]

(* TransformerDecoder._init_cache, self-attention side.                    *)
init_self_cache(enc_out) ==
    [l \in Layers |->
        IF layer_kind[l] = "avg"
        THEN [enabled |-> TRUE, len |-> 0,
              shape |-> <<enc_out[1], 1, enc_out[3]>>]
        ELSE [enabled |-> TRUE, len |-> 0, shape |-> <<>>]]

(* TransformerDecoder._init_cache, context-attention side.                 *)
init_context_cache(enc_out) ==
    [l \in Layers |-> [enabled |-> TRUE, len |-> 0, shape |-> <<>>]]

(* Variant of reset_self_cache without the step is None branch.            *)
reset_self_cache_keep(kw) ==
    IF kw.step = Some(0) THEN init_self_cache(EncOut(kw)) ELSE self_cache

(* forward, the step == 0 / step is None branches on the self caches.      *)
reset_self_cache(kw) ==
    IF kw.step = Some(0) THEN init_self_cache(EncOut(kw))
    ELSE IF kw.step = None THEN [l \in Layers |-> FreshCache]
    ELSE self_cache

(* forward, the same branches on the context caches.                       *)
reset_context_cache(kw) ==
    IF kw.step = Some(0) THEN init_context_cache(EncOut(kw))
    ELSE IF kw.step = None THEN [l \in Layers |-> FreshCache]
    ELSE context_cache

(* One layer call on an enabled self-attention cache: the chunk's keys and *)
(* values are appended (the running average folds the chunk in); a         *)
(* disabled cache is left alone.                                           *)
layer_self_cache(c, kw) ==
    IF c.enabled THEN [c EXCEPT !.len = c.len + kw.emb[2]] ELSE c

(* One layer call on an enabled context cache: the keys and values of the  *)
(* encoder output are computed on first use and kept.                      *)
layer_context_cache(c, kw) ==
    IF c.enabled /\ c.len = 0 THEN [c EXCEPT !.len = EncOut(kw)[2]] ELSE c

(* Variant of forward_self_cache that resets before checking the masks.    *)
forward_self_cache_reset_first(kw) ==
    IF forward_outcome(kw) # "ok" THEN reset_self_cache(kw)
    ELSE [l \in Layers |-> layer_self_cache(reset_self_cache(kw)[l], kw)]

(* The self caches a forward call leaves behind.                           *)
forward_self_cache(kw) ==
    IF forward_outcome(kw) # "ok" THEN self_cache
    ELSE [l \in Layers |-> layer_self_cache(reset_self_cache(kw)[l], kw)]

(* The context caches a forward call leaves behind.                        *)
forward_context_cache(kw) ==
    IF forward_outcome(kw) # "ok" THEN context_cache
    ELSE [l \in Layers |-> layer_context_cache(reset_context_cache(kw)[l], kw)]

(* The caches the layer loop of a forward call starts from: those the step *)
(* branches leave; the loop is not reached when an assertion fails.        *)
layers_self_cache_in(kw) ==
    IF forward_outcome(kw) # "ok" THEN self_cache_in ELSE reset_self_cache(kw)

layers_context_cache_in(kw) ==
    IF forward_outcome(kw) # "ok" THEN context_cache_in ELSE reset_context_cache(kw)

Forward ==
    /\ \E kw \in ForwardCalls :
          /\ \A l \in Layers : forward_self_cache(kw)[l].len <= MaxDepth
          /\ kwargs' = Some([tgt_pad_mask |-> kw.tgt_pad_mask,
                              src_pad_mask |-> kw.src_pad_mask,
                              step |-> kw.step,
                              paths |-> kw.emb[1]])
          /\ outcome' = forward_outcome(kw)
          /\ self_cache_in' = layers_self_cache_in(kw)
          /\ context_cache_in' = layers_context_cache_in(kw)
          /\ self_cache' = forward_self_cache(kw)
          /\ context_cache' = forward_context_cache(kw)
    /\ UNCHANGED <<layer_kind, strategy_vars>>

(* The decoder on its own: any sequence of forward calls on a stack whose  *)
(* layers use standard or average self-attention.                          *)
InitDec ==
    /\ args = BaseArgs
    /\ StrategyNew
    /\ layer_kind \in [Layers -> {"mha", "avg"}]
    /\ self_cache = [l \in Layers |-> FreshCache]
    /\ context_cache = [l \in Layers |-> FreshCache]
    /\ self_cache_in = [l \in Layers |-> FreshCache]
    /\ context_cache_in = [l \in Layers |-> FreshCache]
    /\ kwargs = None
    /\ outcome = "none"

NextDec == Forward

SpecDec == InitDec /\ [][NextDec]_vars

-----------------------------------------------------------------------------
(* Properties.  Shared vocabulary of the statements below.                 *)

(* The last n elements of s (all of s when it is shorter).                 *)
LastN(s, n) == IF n >= Len(s) THEN s ELSE SubSeq(s, Len(s) - n + 1, Len(s))

(* g immediately followed by t occurs as consecutive tokens of s, t being  *)
(* a token the path selected (not the start token it was created with).    *)
Occurs(s, g, t) ==
    \E j \in 1 .. Len(s) :
        /\ j + Len(g) <= Len(s)
        /\ j + Len(g) >= 2
        /\ SubSeq(s, j, j + Len(g)) = Append(g, t)

(* The ids the caller gave as terminal, an int counting as a one-id list.  *)
TerminalIds == Range(args.eos.ids)

Running == pc \notin {"new", "constructed", "error", "raised"}

(* The forced window: the step about to be taken lies inside the prefix.   *)
InForcedWindow == target_prefix # None /\ SelfLen <= Len(target_prefix[1][1])
Prescribed(p) == target_prefix[1][p][SelfLen]

(* C1: in every state of a decode run no path is longer than               *)
(* max_length + 1 tokens, max_length being the bound in force after        *)
(* initialize.                                                             *)
C1_LengthBound ==
    Running => \A i \in 1 .. Len(alive_seq) : Len(alive_seq[i]) <= max_length + 1

(* C2: every run ends by the forced max-length rule.  The length grows by  *)
(* one per step and the rule fires at one length only, so the run can end  *)
(* that way only if no path is left unfinished once that length has been   *)
(* reached or passed: whenever the max-length check has run and a path is  *)
(* still unfinished, the forced stop must still lie ahead.                 *)
C2_ForcedStopAhead ==
    (pc = "finished" /\ ~AllFinished) => SelfLen < max_length + 1

(* C3: for block size k >= 1, once block_ngram_repeats has run, every      *)
(* token T that earlier followed the (k-1)-gram G the path now ends with   *)
(* has the sentinel score, unless G or T holds an excluded token.          *)
C3_RepeatBlocked ==
    (pc = "prefix" /\ block_ngram_repeat >= 1) =>
        \A p \in 1 .. Len(alive_seq) : \A T \in Vocab :
            LET G == LastN(alive_seq[p], block_ngram_repeat - 1)
            IN  ( /\ Len(G) = block_ngram_repeat - 1
                  /\ Occurs(alive_seq[p], G, T)
                  /\ (Range(G) \cup {T}) \cap exclusion_tokens = {} )
                => log_probs[p][T] = NgramSentinel

(* C4: inside the forced window the distribution target_prefixing returns  *)
(* has the prescribed token as its one highest-scoring token, for every    *)
(* path whose prescribed token is neither terminal nor pad; past the       *)
(* window target_prefixing returns the distribution unchanged.             *)
C4_ForcedPrefixSelected ==
    [][ (pc = "prefix" /\ pc' = "pick") =>
          IF InForcedWindow
          THEN \A p \in 1 .. Len(log_probs') :
                  Prescribed(p) \notin (TerminalIds \cup {pad})
                  => ArgMax(log_probs'[p]) = {Prescribed(p)}
          ELSE log_probs' = log_probs ]_vars

(* C5: inside the forced window a prescribed token that is the banned unk  *)
(* or is forbidden by the path's n-gram table is still the selected token  *)
(* once all constraints of the step have been applied.                     *)
C5_ForcedTokenNeverBlocked ==
    (pc = "pick" /\ InForcedWindow) =>
        \A p \in 1 .. Len(log_probs) :
            LET t == Prescribed(p)
                G == LastN(alive_seq[p], block_ngram_repeat - 1)
            IN  ( /\ t \notin (TerminalIds \cup {pad})
                  /\ \/ (ban_unk_token /\ t = unk)
                     \/ ( /\ block_ngram_repeat >= 1
                          /\ SelfLen >= block_ngram_repeat
                          /\ <<G, t>> \in forbidden_tokens[p] ) )
                => ArgMax(log_probs[p]) = {t}

(* C6: ensure_min_length writes the sentinel to every terminal id of every *)
(* path and to nothing else while the length is <= min_length, and changes *)
(* nothing otherwise; so while the length is <= min_length no terminal id  *)
(* is selected on a path that has a non-terminal token above the sentinel. *)
C6_MinLength ==
    /\ [][ (pc = "min_length" /\ pc' = "unk") =>
             /\ Len(log_probs') = Len(log_probs)
             /\ \A p \in 1 .. Len(log_probs) : \A t \in Vocab :
                   log_probs'[p][t] =
                       IF SelfLen <= min_length /\ t \in TerminalIds
                       THEN EosSentinel ELSE log_probs[p][t] ]_vars
    /\ [](( pc = "pick" /\ SelfLen <= min_length) =>
             \A p \in 1 .. Len(log_probs) :
                (\E t \in Vocab \ TerminalIds : log_probs[p][t] > EosSentinel)
                => ArgMax(log_probs[p]) \cap TerminalIds = {})

C6_Witness ==
    /\ pc = "unk"
    /\ SelfLen <= min_length
    /\ Cardinality(TerminalIds) = 2
    /\ \A p \in 1 .. Len(log_probs) : \A t \in TerminalIds :
          log_probs[p][t] = EosSentinel

(* C7: no forbidden table ever holds an entry whose k-gram includes an     *)
(* excluded token, and block_ngram_repeats never masks the last token of   *)
(* a k-gram that includes one.                                             *)
C7_ExclusionNeverRecorded ==
    /\ \A i \in 1 .. Len(forbidden_tokens) : \A e \in forbidden_tokens[i] :
          (Range(e[1]) \cup {e[2]}) \cap exclusion_tokens = {}
    /\ pc = "prefix" =>
          \A p \in 1 .. Len(log_probs) : \A t \in Vocab :
             log_probs[p][t] = NgramSentinel =>
                (Range(LastN(alive_seq[p], block_ngram_repeat - 1)) \cup {t})
                    \cap exclusion_tokens = {}

C7_Witness ==
    /\ pc = "prefix"
    /\ block_ngram_repeat = 2
    /\ \E p \in 1 .. Len(alive_seq) : \E T \in Vocab :
          LET G == LastN(alive_seq[p], 1)
          IN  /\ Occurs(alive_seq[p], G, T)
              /\ (Range(G) \cup {T}) \cap exclusion_tokens # {}
              /\ log_probs[p][T] # NgramSentinel
              /\ forbidden_tokens[p] # {}

(* C8: a constructor call with max_length <= 0 ends in an error and leaves *)
(* no usable strategy state.                                               *)
C8_NonPositiveMaxLengthRejected ==
    (pc # "new" /\ args.max_length <= 0) => pc = "error"

(* C9: right after initialize every one of the batch_size * parallel_paths *)
(* paths holds exactly the start token, no path is finished and the stored *)
(* remainder is the forced prefix without its first column; a forced       *)
(* prefix with another row count is rejected.                              *)
C9_Initialized ==
    /\ (pc = "score" /\ SelfLen = 1) =>
          /\ Len(alive_seq) = args.batch_size * args.parallel_paths
          /\ \A i \in 1 .. Len(alive_seq) : alive_seq[i] = <<start>>
          /\ Len(is_finished_list) = args.batch_size
          /\ \A b \in 1 .. Len(is_finished_list) :
                /\ Len(is_finished_list[b]) = args.parallel_paths
                /\ \A j \in 1 .. args.parallel_paths : ~is_finished_list[b][j]
          /\ (args.target_prefix = None) = (target_prefix = None)
          /\ args.target_prefix # None =>
                /\ Len(target_prefix[1]) = Len(args.target_prefix[1])
                /\ \A i \in 1 .. Len(target_prefix[1]) :
                      /\ Len(target_prefix[1][i]) = Len(args.target_prefix[1][i]) - 1
                      /\ \A j \in 1 .. Len(target_prefix[1][i]) :
                            target_prefix[1][i][j] = args.target_prefix[1][i][j + 1]
    /\ ( /\ args.target_prefix # None
         /\ Len(args.target_prefix[1]) # args.batch_size * args.parallel_paths )
       => pc \in {"new", "constructed", "error"}

C9_Witness ==
    /\ pc = "score"
    /\ SelfLen = 1
    /\ Len(alive_seq) = 2
    /\ target_prefix # None
    /\ Len(target_prefix[1][1]) = 2
    /\ target_prefix[1][2] = <<5, 0>>

(* C10: a forward call without a target padding mask or without a source   *)
(* padding mask ends in an error and leaves every layer's cache as it was. *)
C10_MissingMaskFatal ==
    [][ (kwargs' # None /\ (~kwargs'[1].tgt_pad_mask \/ ~kwargs'[1].src_pad_mask))
        => /\ outcome' = "AssertionError"
           /\ self_cache' = self_cache
           /\ context_cache' = context_cache ]_decoder_vars

C10_Witness ==
    /\ outcome = "AssertionError"
    /\ kwargs[1].tgt_pad_mask
    /\ ~kwargs[1].src_pad_mask
    /\ kwargs[1].step = Some(0)
    /\ \E l \in Layers : self_cache[l].enabled /\ self_cache[l].len >= 2

(* C11: over any sequence of forward calls, a call with step 0 hands every *)
(* layer a self-attention and a cross-attention cache that is enabled and  *)
(* empty (running average: enabled, zeroed, of shape path count x 1 x      *)
(* hidden width); a call without a step hands every layer disabled, empty  *)
(* caches; a call with a step > 0 hands the layers the caches the previous *)
(* calls left.                                                             *)
C11_CacheLifecycle ==
    [][ (kwargs' # None /\ outcome' = "ok") =>
          LET kw == kwargs'[1]
          IN  \A l \in Layers :
                 IF kw.step = Some(0)
                 THEN /\ self_cache_in'[l].enabled /\ self_cache_in'[l].len = 0
                      /\ self_cache_in'[l].shape =
                             IF layer_kind[l] = "avg"
                             THEN <<kw.paths, 1, HiddenSize>> ELSE <<>>
                      /\ context_cache_in'[l].enabled
                      /\ context_cache_in'[l].len = 0
                 ELSE IF kw.step = None
                 THEN /\ ~self_cache_in'[l].enabled /\ self_cache_in'[l].len = 0
                      /\ ~context_cache_in'[l].enabled
                      /\ context_cache_in'[l].len = 0
                 ELSE /\ self_cache_in'[l] = self_cache[l]
                      /\ context_cache_in'[l] = context_cache[l] ]_decoder_vars

C11_Witness ==
    /\ outcome = "ok"
    /\ kwargs # None
    /\ kwargs[1].step = Some(0)
    /\ kwargs[1].paths = 2
    /\ \E l \in Layers :
          /\ layer_kind[l] = "avg"
          /\ self_cache_in[l] = [enabled |-> TRUE, len |-> 0, shape |-> <<2, 1, HiddenSize>>]
          /\ self_cache[l].len = MaxChunk

(* C12: a forward call whose step is > 0 while some layer's cache is       *)
(* disabled (never initialized by a step 0 call, or disabled by a call     *)
(* without a step) or holds fewer than step - 1 positions ends in an       *)
(* error.                                                                  *)
C12_StepBeyondCacheFatal ==
    [][ ( /\ kwargs' # None
          /\ kwargs'[1].tgt_pad_mask /\ kwargs'[1].src_pad_mask
          /\ kwargs'[1].step # None
          /\ kwargs'[1].step[1] > 0
          /\ \E l \in Layers : \/ ~self_cache[l].enabled
                                \/ kwargs'[1].step[1] > self_cache[l].len + 1 )
        => outcome' # "ok" ]_decoder_vars

(* The k tokens a path ends with, and whether an excluded token is among   *)
(* them.                                                                   *)
NewNgram(seq) == LastN(seq, block_ngram_repeat)
NewNgramExcluded(seq) == Range(NewNgram(seq)) \cap exclusion_tokens # {}
(* The mapping from the k-1 tokens before the newly selected token to it.  *)
NewEntry(seq) == <<SubSeq(seq, Len(seq) - block_ngram_repeat + 1, Len(seq) - 1),
                   seq[Len(seq)]>>

UpdatesTables ==
    /\ pc = "forbidden" /\ pc' = "tprefix"
    /\ block_ngram_repeat >= 1
    /\ SelfLen >= block_ngram_repeat

GivenPrefix == StripBos(args.target_prefix[1])

(* C15: maybe_update_target_prefix reindexes the remainder by the step's   *)
(* selection while the length after extension is <= the prefix length and  *)
(* leaves it alone afterwards; so whenever target_prefixing consults the   *)
(* remainder, its row i is the forced prefix of the initial path that      *)
(* alive_seq row i descends from.                                          *)
C15_RemainderAligned ==
    /\ [][ (pc = "tprefix" /\ pc' = "max_length" /\ target_prefix # None) =>
             IF SelfLen <= Len(target_prefix[1][1])
             THEN /\ Len(target_prefix'[1]) = Len(select_indices)
                  /\ \A i \in 1 .. Len(select_indices) :
                        target_prefix'[1][i] = target_prefix[1][select_indices[i]]
             ELSE target_prefix' = target_prefix ]_vars
    /\ []((pc = "prefix" /\ InForcedWindow) =>
             /\ Len(target_prefix[1]) = Len(alive_seq)
             /\ \A i \in 1 .. Len(alive_seq) :
                   target_prefix[1][i] = GivenPrefix[origin[i]])

C15_Witness ==
    /\ pc = "prefix"
    /\ InForcedWindow
    /\ SelfLen = 2
    /\ origin = <<2, 1>>
    /\ target_prefix[1] = << <<5, 0>>, <<4, 5>> >>

(* C16: ensure_max_length sets the finished flag of every path of every    *)
(* batch item when the length is max_length + 1, whatever the flags were,  *)
(* and changes no flag otherwise; it leaves scores, sequences, tables and  *)
(* the prefix remainder alone; and a second call right after the first     *)
(* would change nothing more.                                              *)
C16_MaxLengthIdempotent ==
    [][ (pc = "max_length" /\ pc' = "finished") =>
          /\ IF SelfLen = max_length + 1
             THEN /\ Len(is_finished_list') = Len(is_finished_list)
                  /\ \A b \in 1 .. Len(is_finished_list') :
                        /\ Len(is_finished_list'[b]) = parallel_paths
                        /\ \A j \in 1 .. parallel_paths : is_finished_list'[b][j]
             ELSE is_finished_list' = is_finished_list
          /\ UNCHANGED <<log_probs, alive_seq, forbidden_tokens, target_prefix,
                         min_length, max_length>>
          /\ ensure_max_length' = is_finished_list' ]_vars

C16_Witness ==
    /\ pc = "finished"
    /\ SelfLen = max_length + 1
    /\ Len(is_finished_list) = 2
    /\ AllFinished
    /\ \A i \in 1 .. Len(alive_seq) :
          alive_seq[i][Len(alive_seq[i])] \notin TerminalIds

(* C17: the four constraints change the scores only: over a step of        *)
(* ensure_min_length, ensure_unk_removed, block_ngram_repeats or           *)
(* target_prefixing the sequences, the finished flags, every forbidden     *)
(* table, the prefix remainder and both length bounds stay as they were;   *)
(* any step that changes one of them is a bookkeeping step (construction,  *)
(* initialize, selection, the two maybe_update methods, ensure_max_length, *)
(* the removal of finished items).                                         *)
C17_ConstraintsKeepPathState ==
    /\ [][ (pc \in {"min_length", "unk", "ngram", "prefix"}) =>
             UNCHANGED <<alive_seq, is_finished_list, forbidden_tokens,
                         target_prefix, min_length, max_length>> ]_vars
    /\ [][ (<<alive_seq, is_finished_list, forbidden_tokens, target_prefix,
               min_length, max_length>>' #
             <<alive_seq, is_finished_list, forbidden_tokens, target_prefix,
               min_length, max_length>>) =>
             pc \in {"new", "constructed", "pick", "forbidden", "tprefix",
                     "max_length", "finished"} ]_vars

C17_Witness ==
    /\ pc = "pick"
    /\ target_prefix # None
    /\ \E p \in 1 .. Len(log_probs) :
          /\ log_probs[p][unk] = UnkSentinel - PrefixPenalty
          /\ log_probs[p][4] = NgramSentinel
          /\ log_probs[p][5] < -PrefixPenalty
          /\ <<LastN(alive_seq[p], 1), 4>> \in forbidden_tokens[p]

(* A score lowered by the forced-prefix penalty (the n-gram sentinel       *)
(* absorbs it).                                                            *)
Penalised(x) == IF x = NgramSentinel THEN x ELSE x - PrefixPenalty

(* C18: over a target_prefixing call inside the forced window, a path      *)
(* whose prescribed token is a terminal id or pad keeps all its scores,    *)
(* whether or not another path is forced; a forced path keeps the score of *)
(* its prescribed token and has every other score lowered by the penalty.  *)
C18_ExemptPathsUntouched ==
    [][ (pc = "prefix" /\ pc' = "pick" /\ InForcedWindow) =>
          /\ Len(log_probs') = Len(log_probs)
          /\ \A p \in 1 .. Len(log_probs) : \A t \in Vocab :
                log_probs'[p][t] =
                    IF Prescribed(p) \in (TerminalIds \cup {pad}) THEN log_probs[p][t]
                    ELSE IF t = Prescribed(p) THEN log_probs[p][t]
                    ELSE Penalised(log_probs[p][t]) ]_vars

C18_Witness ==
    /\ pc = "pick"
    /\ InForcedWindow
    /\ Len(log_probs) = 2
    /\ Prescribed(1) = 4
    /\ Prescribed(2) = pad
    /\ log_probs[1][4] > -PrefixPenalty
    /\ log_probs[1][5] < -PrefixPenalty
    /\ \A t \in Vocab : log_probs[2][t] > -PrefixPenalty

(* C19: for a configured max_length >= 1 and any forced prefix, the bounds *)
(* initialize leaves satisfy max_length >= 1 and, when the configured      *)
(* bounds did, min_length <= max_length; and when the forced max-length    *)
(* stop triggers, every path has emitted at least as many tokens as its    *)
(* forced prefix holds non-padding tokens.                                 *)
C19_AdjustedBoundsValid ==
    /\ ( /\ pc = "score" /\ SelfLen = 1
         /\ args.target_prefix # None /\ args.max_length >= 1 )
       => /\ max_length >= 1
          /\ args.min_length <= args.max_length => min_length <= max_length
    /\ ( /\ pc = "finished" /\ SelfLen = max_length + 1
         /\ args.target_prefix # None /\ args.max_length >= 1 )
       => \A i \in 1 .. Len(alive_seq) :
             SelfLen - 1 >= NonPadCount(GivenPrefix[origin[i]])

(* The entries the k-grams of seq that end at position last or later make: *)
(* (k-1)-gram -> next token for every k consecutive tokens without an      *)
(* excluded one.                                                           *)
NgramEntries(seq, last) ==
    LET k == block_ngram_repeat
    IN  { <<SubSeq(seq, j, j + k - 2), seq[j + k - 1]>> :
            j \in {h \in 1 .. (Len(seq) - k + 1) :
                     /\ h + k - 1 >= last
                     /\ Range(SubSeq(seq, h, h + k - 1)) \cap exclusion_tokens = {}} }

(* At least one step is complete: a token has been selected and the tables *)
(* have been brought up to the sequences.                                  *)
StepComplete ==
    Running /\ pc # "forbidden" /\ SelfLen >= 2 /\ block_ngram_repeat >= 1

(* C20, as claimed: after every completed step there is one table per      *)
(* alive path, and table i holds g -> t exactly for the k consecutive      *)
(* tokens g, t found anywhere in alive_seq[i] that include no excluded     *)
(* token.                                                                  *)
C20_TablesAreTheNgrams ==
    StepComplete =>
        /\ Len(forbidden_tokens) = Len(alive_seq)
        /\ \A i \in 1 .. Len(alive_seq) :
              forbidden_tokens[i] = NgramEntries(alive_seq[i], 1)

(* C20, amended: the same for the k consecutive tokens that end at a       *)
(* selected token, i.e. not the start token taken alone (k = 1).           *)
C20_TablesAreTheSelectedNgrams ==
    StepComplete =>
        /\ Len(forbidden_tokens) = Len(alive_seq)
        /\ \A i \in 1 .. Len(alive_seq) :
              forbidden_tokens[i] = NgramEntries(alive_seq[i], 2)

C20_Witness ==
    /\ pc = "tprefix"
    /\ block_ngram_repeat = 2
    /\ Len(alive_seq) = 2
    /\ Len(alive_seq[1]) = 3
    /\ select_indices = <<2, 1>>
    /\ alive_seq[1][2] # alive_seq[2][2]
    /\ exclusion_tokens = {4}
    /\ Cardinality(forbidden_tokens[1]) = 2
    /\ Cardinality(forbidden_tokens[2]) = 1

(* C21: in every reachable state and for every score distribution, each   *)
(* of ensure_min_length, ensure_unk_removed, block_ngram_repeats and       *)
(* target_prefixing completes without raising, keeps the shape of the      *)
(* scores and only lowers them.                                            *)
C21_ConstraintsNeverRaise ==
    [][ (pc \in {"min_length", "unk", "ngram", "prefix"}) =>
          /\ pc' # "raised"
          /\ Len(log_probs') = Len(log_probs)
          /\ \A p \in 1 .. Len(log_probs) : \A t \in Vocab :
                log_probs'[p][t] <= log_probs[p][t] ]_vars

(* Every terminal id banned by the minimum length, the forced token        *)
(* blocked as a repeated bigram, and the forced prefix applied, in one     *)
(* step.                                                                   *)
C21_Witness ==
    /\ pc = "pick"
    /\ InForcedWindow
    /\ SelfLen <= min_length
    /\ Cardinality(TerminalIds) = 2
    /\ \A e \in TerminalIds : log_probs[1][e] = EosSentinel - PrefixPenalty
    /\ log_probs[1][Prescribed(1)] = NgramSentinel

====
